---- MODULE Spec2Model ----
(***************************************************************************)
(* Model of drizzle-orm/src/mysql-core/view.ts: the MySQL view builders    *)
(* (ViewBuilderCore, ViewBuilder, ManualViewBuilder), the view descriptor  *)
(* (MySqlView) and the factories mysqlView / mysqlViewWithSchema.          *)
(*                                                                         *)
(* Objects are modelled with their JavaScript reference semantics: the     *)
(* builder's `config` object lives in `heap`, and a descriptor built by    *)
(* `as` holds a REFERENCE to it (`mysqlConfig: this.config`), not a copy.  *)
(* One builder is created per behaviour; builders share no state (the      *)
(* `config = {}` field initialiser allocates one object per instance).     *)
(***************************************************************************)
EXTENDS Integers, Sequences, FiniteSets, TLC

VARIABLES
    builder,    \* the builder object (kind "none" before the factory call)
    heap,       \* the ViewBuilderConfig objects, by address
    views,      \* the descriptors returned so far, in order of creation
    log,        \* the setter calls made on the builder, in order
    qbCount,    \* number of QueryBuilder instances created so far
    fnCalls,    \* the QueryBuilder instance passed to each factory-function call
    lastOp,     \* the last operation: its name, arguments and outcome
    given       \* the arguments the factory was called with

vars == <<builder, heap, views, log, qbCount, fnCalls, lastOp, given>>

(* ------------------------------ bounds --------------------------------- *)
MaxCalls == 2       \* setter calls made on the builder
MaxViews == 2       \* terminal operations (descriptors) per behaviour

(* ------------------------------ values --------------------------------- *)
Undefined == "<undefined>"           \* JavaScript undefined, for scalar slots

\* ViewBuilderConfig value domains (view.ts:14-19)
Algorithms       == {"undefined", "merge"}
Definers         == {"root"}
SqlSecurities    == {"invoker"}
WithCheckOptions == {"cascaded", "local"}

Options == {"algorithm", "definer", "sqlSecurity", "withCheckOption"}

\* `protected config: ViewBuilderConfig = {}`  (view.ts:34)
EmptyConfig ==
    [algorithm |-> Undefined, definer |-> Undefined,
     sqlSecurity |-> Undefined, withCheckOption |-> Undefined]

\* A selected field: its key in the selection, what it is, the alias it
\* resolves under, and its name.
Field(k, kind, alias, name) ==
    [key |-> k, kind |-> kind, alias |-> alias, name |-> name]

ErrorField(k) == Field(k, "error", "", "")

\* The column mappings a caller may pass to the factories: absent, empty,
\* or keyed column builders (keys in declaration order).
NoSelection    == [given |-> FALSE, cols |-> <<>>]

EmptySelection == [given |-> TRUE, cols |-> <<>>]

TwoColumns     == [given |-> TRUE, cols |-> << [key |-> "b", name |-> "col_b"],
                                              [key |-> "a", name |-> "col_a"] >>]

\* The factory calls a caller may make: every kind of selection, with and
\* without a schema, under two names.
FactoryInputs ==
    { [name |-> "v", selection |-> NoSelection,    schema |-> Undefined],
      [name |-> "w", selection |-> NoSelection,    schema |-> "s"],
      [name |-> "w", selection |-> EmptySelection, schema |-> Undefined],
      [name |-> "v", selection |-> EmptySelection, schema |-> "s"],
      [name |-> "w", selection |-> TwoColumns,     schema |-> Undefined],
      [name |-> "v", selection |-> TwoColumns,     schema |-> "s"] }

\* The source queries a caller may pass to `as`: getSelectedFields() and
\* getSQL() of a TypedQueryBuilder.
Queries ==
    { [sql |-> "select1",
       fields |-> << Field("id", "column", "users", "id"),
                     Field("lower", "aliased", "sq", "lower_name") >>],
      [sql |-> "select2",
       fields |-> << Field("id", "column", "sq", "id"),
                     Field("cnt", "sql", "", "count(*)") >>] }

NoSql == [defined |-> FALSE, text |-> "", inline |-> FALSE]

\* SQL.inlineParams(): marks the SQL for parameter inlining
InlineParams(text) == [defined |-> TRUE, text |-> text, inline |-> TRUE]

NoAddr == <<>>

NoBuilder ==
    [kind |-> "none", id |-> "", name |-> "", schema |-> Undefined,
     config |-> NoAddr, columns |-> <<>>]

NoOp ==
    [op |-> "init", name |-> "", schema |-> Undefined, sel |-> NoSelection,
     arg |-> Undefined, viaFn |-> FALSE, sql |-> "", qfields |-> <<>>,
     view |-> 0, err |-> FALSE, ret |-> "",
     fields |-> <<>>, selFields |-> <<>>, before |-> EmptyConfig,
     qbBefore |-> 0, fnBefore |-> 0]

Init ==
    /\ builder = NoBuilder
    /\ heap = <<>>
    /\ views = <<>>
    /\ log = <<>>
    /\ qbCount = 0
    /\ fnCalls = <<>>
    /\ lastOp = NoOp
    /\ given = [name |-> "", selection |-> NoSelection, schema |-> Undefined]

(* ---------------------------- factories -------------------------------- *)

\* Variant: a test for a mapping with at least one column
TruthyNonEmpty(selection) == selection.given /\ Len(selection.cols) > 0

\* JavaScript truthiness of `selection` (a mapping object or undefined):
\* every object, also the empty one, is truthy.
Truthy(selection) == selection.given

\* getTableColumns(mysqlTable(name, columns)): each column builder is built
\* against a synthetic table called `name`, under its key, in mapping order.
BuildColumns(name, cols) ==
    [i \in 1..Len(cols) |-> Field(cols[i].key, "column", name, cols[i].name)]

\* new ViewBuilder(name, schema): ViewBuilderCore's constructor; the field
\* initialiser allocates the config object at address `addr`.
NewViewBuilder(name, schema, addr) ==
    [kind |-> "ViewBuilder", id |-> "builder", name |-> name,
     schema |-> schema, config |-> <<addr>>, columns |-> <<>>]

\* new ManualViewBuilder(name, columns, schema)
NewManualViewBuilder(name, columns, schema, addr) ==
    [kind |-> "ManualViewBuilder", id |-> "builder", name |-> name,
     schema |-> schema, config |-> <<addr>>,
     columns |-> BuildColumns(name, columns)]

\* mysqlViewWithSchema(name, selection, schema): the builder it returns
MysqlViewWithSchemaResult(name, selection, schema, addr) ==
    IF Truthy(selection)
    THEN NewManualViewBuilder(name, selection.cols, schema, addr)
    ELSE NewViewBuilder(name, schema, addr)

\* mysqlView(name[, columns]): the builder it returns
MysqlViewResult(name, selection, addr) ==
    MysqlViewWithSchemaResult(name, selection, Undefined, addr)

mysqlViewWithSchema(name, selection, schema) ==
    /\ builder.kind = "none"
    /\ builder' = MysqlViewWithSchemaResult(name, selection, schema, Len(heap) + 1)
    /\ heap' = Append(heap, EmptyConfig)
    /\ lastOp' = [NoOp EXCEPT !.op = "mysqlViewWithSchema", !.name = name,
                              !.schema = schema, !.sel = selection,
                              !.ret = "builder"]
    /\ given' = [name |-> name, selection |-> selection, schema |-> schema]
    /\ UNCHANGED <<views, log, qbCount, fnCalls>>

mysqlView(name, selection) ==
    /\ builder.kind = "none"
    /\ builder' = MysqlViewResult(name, selection, Len(heap) + 1)
    /\ heap' = Append(heap, EmptyConfig)
    /\ lastOp' = [NoOp EXCEPT !.op = "mysqlView", !.name = name,
                              !.sel = selection, !.ret = "builder"]
    /\ given' = [name |-> name, selection |-> selection, schema |-> Undefined]
    /\ UNCHANGED <<views, log, qbCount, fnCalls>>

(* ------------------------- ViewBuilderCore ----------------------------- *)

\* `x ?? d`
Nullish(x, d) == IF x = Undefined THEN d ELSE x

\* Variant: a setter that starts from a new config object
SetAlgorithmResetting(cfg, a) == [EmptyConfig EXCEPT !.algorithm = a]

\* this.config.algorithm = algorithm
SetAlgorithm(cfg, a) == [cfg EXCEPT !.algorithm = a]

\* Variant: a setter that writes another option than its own
SetDefinerAsSecurity(cfg, d) == [cfg EXCEPT !.sqlSecurity = d]

\* this.config.definer = definer
SetDefiner(cfg, d) == [cfg EXCEPT !.definer = d]

\* this.config.sqlSecurity = sqlSecurity
SetSqlSecurity(cfg, s) == [cfg EXCEPT !.sqlSecurity = s]

\* Variant: the default applied only while nothing is stored
SetWithCheckOptionKeeping(cfg, w) ==
    [cfg EXCEPT !.withCheckOption = Nullish(w, Nullish(cfg.withCheckOption, "cascaded"))]

\* this.config.withCheckOption = withCheckOption ?? 'cascaded'
SetWithCheckOption(cfg, w) ==
    [cfg EXCEPT !.withCheckOption = Nullish(w, "cascaded")]

\* The effect of one setter call on a configuration object
ApplySetter(cfg, setter, arg) ==
    CASE setter = "algorithm"       -> SetAlgorithm(cfg, arg)
      [] setter = "definer"         -> SetDefiner(cfg, arg)
      [] setter = "sqlSecurity"     -> SetSqlSecurity(cfg, arg)
      [] setter = "withCheckOption" -> SetWithCheckOption(cfg, arg)

\* The config object the builder holds
Config == heap[builder.config[1]]

\* Common shape of the four setters: mutate this.config in place, return this
Setter(setter, arg) ==
    /\ builder.kind # "none"
    /\ Len(log) < MaxCalls
    /\ heap' = [heap EXCEPT ![builder.config[1]] = ApplySetter(@, setter, arg)]
    /\ log' = Append(log, [setter |-> setter, arg |-> arg])
    /\ lastOp' = [NoOp EXCEPT !.op = setter, !.arg = arg, !.ret = builder.id,
                              !.before = Config]
    /\ UNCHANGED <<builder, views, qbCount, fnCalls, given>>

algorithm(a) == Setter("algorithm", a)

definer(d) == Setter("definer", d)

sqlSecurity(s) == Setter("sqlSecurity", s)

withCheckOption(w) == Setter("withCheckOption", w)

(* ---------------------- aliasing / selection proxy --------------------- *)

\* Variant: a handler that hands SQL fields out as they are
SelectionProxyConfigSqlPassThrough(name) ==
    [alias |-> name, sqlBehavior |-> "sql", sqlAliasedBehavior |-> "sql",
     replaceOriginalName |-> TRUE]

\* The handler configuration every terminal operation requests
\* (view.ts:74-79, 124-129, 144-149)
SelectionProxyConfig(name) ==
    [alias |-> name, sqlBehavior |-> "error", sqlAliasedBehavior |-> "alias",
     replaceOriginalName |-> TRUE]

\* SelectionProxyHandler.get applied to the value `f` found under a key:
\* a column resolves under the handler's alias; an aliased expression gets
\* the alias substituted when sqlAliasedBehavior = 'alias'; a raw expression
\* without alias fails when sqlBehavior = 'error'.  A failure below
\* propagates.
ProxyGet(h, f) ==
    CASE f.kind = "error"   -> f
      [] f.kind = "column"  -> [f EXCEPT !.alias = h.alias]
      [] f.kind = "aliased" -> IF h.sqlAliasedBehavior = "alias"
                               THEN [f EXCEPT !.alias = h.alias]
                               ELSE f
      [] f.kind = "sql"     -> IF h.sqlBehavior = "error"
                               THEN ErrorField(f.key)
                               ELSE f

Keys(fields) == [i \in 1..Len(fields) |-> fields[i].key]

FieldByKey(fields, k) ==
    fields[CHOOSE i \in 1..Len(fields) : fields[i].key = k]

\* Variant: a wrapper that resolves every field when it is created
NewProxyEager(target, handler) ==
    [target |-> target, handler |-> <<handler>>,
     thrown |-> \E i \in 1..Len(target) : ProxyGet(handler, target[i]).kind = "error"]

\* `new Proxy(target, handler)`: JavaScript creates the proxy without
\* calling any trap; the handler runs on each later property read.
NewProxy(target, handler) ==
    [target |-> target, handler |-> <<handler>>, thrown |-> FALSE]

\* A selection that is a plain object (the manual builder's this.columns)
PlainSelection(columns) ==
    [target |-> columns, handler |-> <<>>, thrown |-> FALSE]

\* selection[k]
ReadSelection(sel, k) ==
    IF sel.handler = <<>>
    THEN FieldByKey(sel.target, k)
    ELSE ProxyGet(sel.handler[1], FieldByKey(sel.target, k))

(* --------------------------- descriptors ------------------------------- *)

\* new Proxy(new MySqlView({mysqlConfig, config}), handler)
NewMySqlView(mysqlConfig, name, schema, selectedFields, query, handler) ==
    [name |-> name, schema |-> schema, selectedFields |-> selectedFields,
     query |-> query, mysqlConfig |-> mysqlConfig, handler |-> handler]

\* descriptor[k]: the descriptor's proxy reads selectedFields[k] and
\* resolves it
DescriptorGet(view, k) ==
    ProxyGet(view.handler, ReadSelection(view.selectedFields, k))

\* descriptor[ViewBaseConfig].selectedFields[k]: the handler hands out the
\* selectedFields wrapped in a proxy of its own.
SelectedFieldsGet(view, k) ==
    ProxyGet(view.handler, ReadSelection(view.selectedFields, k))

\* descriptor[MySqlViewConfig], read now: the object the reference points to
MySqlViewConfigOf(view) ==
    IF view.mysqlConfig = NoAddr THEN <<>> ELSE <<heap[view.mysqlConfig[1]]>>

(* ---------------------------- ViewBuilder ------------------------------ *)

\* Variant: one QueryBuilder kept and passed to every call
ResolveQbShared(arg, n) ==
    IF arg.isFunction
    THEN [query |-> arg.query, created |-> IF n = 0 THEN 1 ELSE 0, calls |-> <<1>>]
    ELSE [query |-> arg.query, created |-> 0, calls |-> <<>>]

\* if (typeof qb === 'function') qb = qb(new QueryBuilder())
\* `n` QueryBuilder instances exist already; instances are numbered.
ResolveQb(arg, n) ==
    IF arg.isFunction
    THEN [query |-> arg.query, created |-> 1, calls |-> <<n + 1>>]
    ELSE [query |-> arg.query, created |-> 0, calls |-> <<>>]

\* The descriptor ViewBuilder.as builds from the resolved query
ViewBuilderAsView(b, q) ==
    NewMySqlView(b.config, b.name, b.schema,
                 NewProxy(q.fields, SelectionProxyConfig(b.name)),
                 InlineParams(q.sql), SelectionProxyConfig(b.name))

ViewBuilderAs(arg) ==
    /\ builder.kind = "ViewBuilder"
    /\ Len(views) < MaxViews
    /\ LET r == ResolveQb(arg, qbCount)
           v == ViewBuilderAsView(builder, r.query)
           thrown == v.selectedFields.thrown
       IN  /\ qbCount' = qbCount + r.created
           /\ fnCalls' = fnCalls \o r.calls
           /\ views' = IF thrown THEN views ELSE Append(views, v)
           /\ lastOp' = [NoOp EXCEPT !.op = "ViewBuilder.as",
                                     !.viaFn = arg.isFunction,
                                     !.sql = arg.query.sql,
                                     !.qfields = arg.query.fields,
                                     !.err = thrown,
                                     !.qbBefore = qbCount,
                                     !.fnBefore = Len(fnCalls),
                                     !.view = IF thrown THEN 0 ELSE Len(views) + 1]
    /\ UNCHANGED <<builder, heap, log, given>>

(* ------------------------- ManualViewBuilder --------------------------- *)

\* The selected fields a query with this SQL text outputs
QueryOutput(sql) == (CHOOSE q \in Queries : q.sql = sql).fields

\* Variant: existing() passing the builder's config
ExistingViewWithConfig(b) ==
    NewMySqlView(b.config, b.name, b.schema, PlainSelection(b.columns),
                 NoSql, SelectionProxyConfig(b.name))

\* The descriptor ManualViewBuilder.existing builds
ExistingView(b) ==
    NewMySqlView(NoAddr, b.name, b.schema, PlainSelection(b.columns),
                 NoSql, SelectionProxyConfig(b.name))

\* Variant: as(query) taking the columns the query outputs
ManualAsViewFromQuery(b, sql) ==
    NewMySqlView(b.config, b.name, b.schema, PlainSelection(QueryOutput(sql)),
                 InlineParams(sql), SelectionProxyConfig(b.name))

\* The descriptor ManualViewBuilder.as builds
ManualAsView(b, sql) ==
    NewMySqlView(b.config, b.name, b.schema, PlainSelection(b.columns),
                 InlineParams(sql), SelectionProxyConfig(b.name))

ManualViewBuilderExisting ==
    /\ builder.kind = "ManualViewBuilder"
    /\ Len(views) < MaxViews
    /\ views' = Append(views, ExistingView(builder))
    /\ lastOp' = [NoOp EXCEPT !.op = "ManualViewBuilder.existing",
                              !.view = Len(views) + 1]
    /\ UNCHANGED <<builder, heap, log, qbCount, fnCalls, given>>

ManualViewBuilderAs(sql) ==
    /\ builder.kind = "ManualViewBuilder"
    /\ Len(views) < MaxViews
    /\ views' = Append(views, ManualAsView(builder, sql))
    /\ lastOp' = [NoOp EXCEPT !.op = "ManualViewBuilder.as", !.sql = sql,
                              !.qfields = QueryOutput(sql),
                              !.view = Len(views) + 1]
    /\ UNCHANGED <<builder, heap, log, qbCount, fnCalls, given>>

(* ------------------------- reading a descriptor ------------------------ *)

\* Reading every field of descriptor i, both ways: descriptor[k] and
\* descriptor[ViewBaseConfig].selectedFields[k], for each key k in order.
\* A read that fails yields an error field.
GetFields(i) ==
    /\ LET keys == Keys(views[i].selectedFields.target)
       IN  lastOp' = [NoOp EXCEPT
              !.op = "get", !.view = i,
              !.fields = [j \in 1..Len(keys) |-> DescriptorGet(views[i], keys[j])],
              !.selFields = [j \in 1..Len(keys) |-> SelectedFieldsGet(views[i], keys[j])]]
    /\ UNCHANGED <<builder, heap, views, log, qbCount, fnCalls, given>>

QbArgs == [isFunction : BOOLEAN, query : Queries]

Next ==
    \/ \E in \in FactoryInputs :
          mysqlViewWithSchema(in.name, in.selection, in.schema)
    \/ \E in \in FactoryInputs :
          in.schema = Undefined /\ mysqlView(in.name, in.selection)
    \/ \E a \in Algorithms : algorithm(a)
    \/ \E d \in Definers : definer(d)
    \/ \E s \in SqlSecurities : sqlSecurity(s)
    \/ \E w \in WithCheckOptions \cup {Undefined} : withCheckOption(w)
    \/ \E arg \in QbArgs : ViewBuilderAs(arg)
    \/ ManualViewBuilderExisting
    \/ \E q \in Queries : ManualViewBuilderAs(q.sql)
    \/ \E i \in 1..Len(views) : GetFields(i)

Spec == Init /\ [][Next]_vars

(* ======================================================================= *)
(*                              Properties                                 *)
(* ======================================================================= *)

LastView == views[Len(views)]

AsOps == {"ViewBuilder.as", "ManualViewBuilder.as"}

\* What a reader of descriptor i sees: its name, schema, selected fields,
\* query, and the dialect configuration behind descriptor[MySqlViewConfig].
DescriptorState(i) ==
    [name |-> views[i].name, schema |-> views[i].schema,
     selectedFields |-> views[i].selectedFields, query |-> views[i].query,
     dialect |-> MySqlViewConfigOf(views[i])]

\* The values option `o` was given by the calls of its setter in `calls`,
\* in call order (withCheckOption() stores 'cascaded').
Written(calls, o) ==
    LET idx == { i \in 1..Len(calls) : calls[i].setter = o }
    IN  IF idx = {} THEN Undefined
        ELSE LET last == CHOOSE i \in idx : \A j \in idx : j <= i
             IN  IF o = "withCheckOption" /\ calls[last].arg = Undefined
                 THEN "cascaded"
                 ELSE calls[last].arg

\* The last-write-wins reading of a sequence of setter calls
LastWriteWins(calls) == [o \in Options |-> Written(calls, o)]

\* C1: once a terminal operation has returned a descriptor, no later
\* operation on the builder changes the descriptor's name, schema,
\* selectedFields, query or dialect configuration.
C1_DescriptorImmutable ==
    [][\A i \in 1..Len(views) : DescriptorState(i)' = DescriptorState(i)]_vars

\* C2: after any setter calls, existing() yields a descriptor whose query is
\* undefined and whose dialect configuration is undefined.
C2_ExistingHasNoQueryNoConfig ==
    lastOp.op = "ManualViewBuilder.existing" =>
        /\ ~lastOp.err
        /\ lastOp.view = Len(views)
        /\ LastView.query = NoSql
        /\ LastView.mysqlConfig = NoAddr
        /\ MySqlViewConfigOf(LastView) = <<>>

\* C2 witness: existing() was called on a builder whose configuration the
\* setters had filled.
C2_Witness ==
    /\ lastOp.op = "ManualViewBuilder.existing"
    /\ Len(log) = MaxCalls
    /\ Config # EmptyConfig

\* C9: the builder's configuration, and the dialect configuration of a
\* descriptor as returned by `as`, is the last-write-wins result of the
\* setter calls made so far; a fresh builder's configuration is empty; a
\* setter changes its own option only, leaves name and schema alone, does
\* not fail and returns the builder.
C9_ConfigIsLastWriteWins ==
    /\ builder.kind # "none" =>
          \A o \in Options : Config[o] = LastWriteWins(log)[o]
    /\ lastOp.op \in {"mysqlView", "mysqlViewWithSchema"} => Config = EmptyConfig
    /\ lastOp.op \in AsOps /\ ~lastOp.err =>
          MySqlViewConfigOf(LastView) = << [algorithm |-> Written(log, "algorithm"),
                                            definer |-> Written(log, "definer"),
                                            sqlSecurity |-> Written(log, "sqlSecurity"),
                                            withCheckOption |-> Written(log, "withCheckOption")] >>
    /\ lastOp.op \in Options =>
          /\ \A o \in Options \ {lastOp.op} : Config[o] = lastOp.before[o]
          /\ builder.name = given.name
          /\ builder.schema = given.schema
          /\ ~lastOp.err
          /\ lastOp.ret = builder.id

\* C9 witness: `as` returned after the same setter was called twice with
\* different values.
C9_Witness ==
    /\ lastOp.op \in AsOps
    /\ Len(log) = 2
    /\ log[1].setter = log[2].setter
    /\ log[1].arg # log[2].arg
    /\ MySqlViewConfigOf(LastView) # <<EmptyConfig>>

\* C10: the factory returns a manually-typed builder exactly when a column
\* mapping is given (an empty one included), a query-derived builder
\* otherwise; builder and descriptors carry the given name and schema, and
\* mysqlView passes schema undefined.
C10_FactorySelection ==
    /\ builder.kind # "none" =>
          /\ given.selection.given => builder.kind = "ManualViewBuilder"
          /\ ~given.selection.given => builder.kind = "ViewBuilder"
          /\ builder.name = given.name
          /\ builder.schema = given.schema
          /\ \A i \in 1..Len(views) :
                views[i].name = given.name /\ views[i].schema = given.schema
    /\ lastOp.op = "mysqlViewWithSchema" =>
          builder.name = lastOp.name /\ builder.schema = lastOp.schema
    /\ lastOp.op = "mysqlView" =>
          builder.name = lastOp.name /\ builder.schema = Undefined

\* C10 witness: a builder made from an empty mapping has produced a
\* descriptor.
C10_Witness ==
    /\ given.selection = EmptySelection
    /\ given.schema = "s"
    /\ builder.kind = "ManualViewBuilder"
    /\ Len(views) > 0

HasRaw(fields) == \E j \in 1..Len(fields) : fields[j].kind = "sql"

\* C3 as stated: ViewBuilder.as itself fails, and returns no descriptor,
\* when the query's selected fields contain an unaliased raw expression.
C3_AsFailsOnRawField ==
    lastOp.op = "ViewBuilder.as" /\ HasRaw(lastOp.qfields) =>
        lastOp.err /\ lastOp.view = 0

\* C3 as amended: ViewBuilder.as returns a descriptor for every query, one
\* with an unaliased raw expression among its selected fields included; the
\* failure happens at each read of such a field on the descriptor (by
\* accessor or through selectedFields), and reads of other fields succeed.
C3_RawFieldFailsOnRead ==
    /\ lastOp.op = "ViewBuilder.as" =>
          /\ ~lastOp.err
          /\ lastOp.view = Len(views)
          /\ LastView.selectedFields.target = lastOp.qfields
    /\ lastOp.op = "get" =>
          LET t == views[lastOp.view].selectedFields.target
          IN  /\ Len(lastOp.fields) = Len(t)
              /\ Len(lastOp.selFields) = Len(t)
              /\ \A j \in 1..Len(t) :
                    /\ lastOp.fields[j].kind = "error" <=> t[j].kind = "sql"
                    /\ lastOp.selFields[j].kind = "error" <=> t[j].kind = "sql"

\* C3 witness: a descriptor built from a query with a raw field was
\* returned, and reading that field failed.
C3_Witness ==
    /\ lastOp.op = "get"
    /\ builder.kind = "ViewBuilder"
    /\ HasRaw(views[lastOp.view].selectedFields.target)
    /\ \E j \in 1..Len(lastOp.fields) : lastOp.fields[j].kind = "error"

\* The setter calls and arguments the type of each setter admits
SetterArgs(setter) ==
    CASE setter = "algorithm"       -> Algorithms
      [] setter = "definer"         -> Definers
      [] setter = "sqlSecurity"     -> SqlSecurities
      [] setter = "withCheckOption" -> WithCheckOptions \cup {Undefined}

RECURSIVE Replay(_, _)
\* The configuration a sequence of setter calls leaves, starting from cfg
Replay(cfg, calls) ==
    IF calls = <<>> THEN cfg
    ELSE Replay(ApplySetter(cfg, Head(calls).setter, Head(calls).arg), Tail(calls))

\* The calls with the last two exchanged
SwapLastTwo(calls) ==
    LET n == Len(calls)
    IN  SubSeq(calls, 1, n - 2) \o <<calls[n], calls[n - 1]>>

\* C4: two calls of distinct setters commute: made in either order, from
\* the configuration the builder has (looked at whenever it is created or
\* has just been written), they leave the same configuration; so
\* the configuration stored after the calls made, and seen through a
\* descriptor that `as` returns next, is the one the calls leave with the
\* last two exchanged.
C4_SettersCommute ==
    /\ lastOp.op \in Options \cup {"mysqlView", "mysqlViewWithSchema"} =>
          \A s1 \in Options : \A s2 \in Options \ {s1} :
             \A a1 \in SetterArgs(s1) : \A a2 \in SetterArgs(s2) :
                ApplySetter(ApplySetter(Config, s1, a1), s2, a2)
                  = ApplySetter(ApplySetter(Config, s2, a2), s1, a1)
    /\ Len(log) >= 2 /\ log[Len(log)].setter # log[Len(log) - 1].setter =>
          /\ Config = Replay(EmptyConfig, SwapLastTwo(log))
          /\ lastOp.op \in AsOps /\ ~lastOp.err =>
                MySqlViewConfigOf(LastView) = <<Replay(EmptyConfig, SwapLastTwo(log))>>

\* C4 witness: `as` returned after calls of two distinct setters.
C4_Witness ==
    /\ lastOp.op \in AsOps
    /\ Len(log) = 2
    /\ log[1].setter = "definer"
    /\ log[2].setter = "algorithm"

\* C5: withCheckOption() stores 'cascaded', the configuration that
\* withCheckOption('cascaded') leaves, whatever was stored before.
C5_WithCheckOptionDefault ==
    lastOp.op = "withCheckOption" /\ lastOp.arg \in {Undefined, "cascaded"} =>
        /\ Config.withCheckOption = "cascaded"
        /\ Config = [lastOp.before EXCEPT !.withCheckOption = "cascaded"]

\* C5 witness: withCheckOption() was called after withCheckOption('local').
C5_Witness ==
    /\ lastOp.op = "withCheckOption"
    /\ lastOp.arg = Undefined
    /\ lastOp.before.withCheckOption = "local"

\* The keys of the mapping given to the factory, in its order
DeclaredKeys == [j \in 1..Len(given.selection.cols) |-> given.selection.cols[j].key]

\* C6: the selectedFields of every descriptor of a manually-typed view have
\* the keys of the mapping given at construction, in the same order, and
\* reading them yields a field per key, in that order; `as` does not take
\* them from the query.
C6_DeclaredColumnsRoundTrip ==
    builder.kind = "ManualViewBuilder" =>
        /\ \A i \in 1..Len(views) :
              Keys(views[i].selectedFields.target) = DeclaredKeys
        /\ lastOp.op = "get" =>
              /\ Keys(lastOp.selFields) = DeclaredKeys
              /\ Keys(lastOp.fields) = DeclaredKeys

\* C6 witness: as(query) returned for a two-column mapping whose keys are
\* not the keys the query outputs.
C6_Witness ==
    /\ lastOp.op = "ManualViewBuilder.as"
    /\ Len(DeclaredKeys) = 2
    /\ Keys(lastOp.qfields) # DeclaredKeys
    /\ Keys(LastView.selectedFields.target) = DeclaredKeys

\* C7 as stated: every field of a query-derived descriptor, read either way,
\* resolves under the view's name.
C7_EveryFieldUnderViewName ==
    lastOp.op = "get" /\ builder.kind = "ViewBuilder" =>
        \A j \in 1..Len(lastOp.fields) :
           /\ lastOp.fields[j].kind # "error"
           /\ lastOp.fields[j].alias = views[lastOp.view].name
           /\ lastOp.selFields[j].kind # "error"
           /\ lastOp.selFields[j].alias = views[lastOp.view].name

\* C7 as amended: every column and every aliased expression of a
\* query-derived descriptor, read either way, resolves under the view's
\* name whatever alias it had in the query; an unaliased raw expression
\* does not resolve: reading it fails.
C7_ColumnsAndAliasedUnderViewName ==
    lastOp.op = "get" /\ builder.kind = "ViewBuilder" =>
        LET t == views[lastOp.view].selectedFields.target
            v == views[lastOp.view].name
        IN  \A j \in 1..Len(t) :
               IF t[j].kind = "sql"
               THEN lastOp.fields[j].kind = "error" /\ lastOp.selFields[j].kind = "error"
               ELSE /\ lastOp.fields[j] = [t[j] EXCEPT !.alias = v]
                    /\ lastOp.selFields[j] = [t[j] EXCEPT !.alias = v]

\* C7 witness: a column and an aliased expression whose aliases in the
\* query were not the view's name have been read.
C7_Witness ==
    /\ lastOp.op = "get"
    /\ builder.kind = "ViewBuilder"
    /\ LET t == views[lastOp.view].selectedFields.target
       IN  /\ \E j \in 1..Len(t) : t[j].kind = "aliased" /\ t[j].alias # builder.name
           /\ \E j \in 1..Len(t) : t[j].kind = "column" /\ t[j].alias # builder.name
    /\ \A j \in 1..Len(lastOp.fields) : lastOp.fields[j].alias = builder.name

\* C8: a function given to ViewBuilder.as is called once per call of `as`,
\* with a QueryBuilder created for that call and passed to no other call;
\* no QueryBuilder is created for a query object; either way the
\* descriptor is the one built from the query itself.
C8_FactoryCalledOnceWithFreshBuilder ==
    /\ \A i, j \in 1..Len(fnCalls) : i # j => fnCalls[i] # fnCalls[j]
    /\ \A i \in 1..Len(fnCalls) : fnCalls[i] \in 1..qbCount
    /\ qbCount = Len(fnCalls)
    /\ lastOp.op = "ViewBuilder.as" =>
          /\ lastOp.viaFn =>
                /\ Len(fnCalls) = lastOp.fnBefore + 1
                /\ qbCount = lastOp.qbBefore + 1
                /\ fnCalls[Len(fnCalls)] \notin 1..lastOp.qbBefore
          /\ ~lastOp.viaFn =>
                /\ Len(fnCalls) = lastOp.fnBefore
                /\ qbCount = lastOp.qbBefore
          /\ ~lastOp.err
          /\ LastView = ViewBuilderAsView(builder, [sql |-> lastOp.sql,
                                                    fields |-> lastOp.qfields])

\* C8 witness: `as` was given a function twice.
C8_Witness ==
    /\ lastOp.op = "ViewBuilder.as"
    /\ lastOp.viaFn
    /\ Len(fnCalls) = 2
    /\ Len(views) = 2

====
